---- MODULE Spec2Model ----
(***************************************************************************)
(* A model of pysankey/sankey.py: the sankey() layout computation          *)
(* (validation, pairwise aggregation, band stacking, strip pass) and the   *)
(* smoothing of one strip boundary.                                        *)
(*                                                                         *)
(* Arithmetic.  The program computes in floating point; the model computes *)
(* in exact arithmetic on a grid.  The value 1.0 is One == Scale * GapDen  *)
(* grid units, so that 0.02 * (a sum of weights) is a whole number of grid *)
(* units for every weight the model draws.  Rounding is not modelled.      *)
(***************************************************************************)
EXTENDS Integers, Sequences, FiniteSets, TLC

\* ------------------------------------------------------------------ bounds
MaxRecords == 2      \* number of records of one call
Scale == 200         \* weight resolution: a weight is a multiple of 1/Scale
MaxLevel == 10       \* boundary levels of the smoothing specification

\* ------------------------------------------------------- program constants
GapNum == 2          \* 0.02 == GapNum / GapDen
GapDen == 100
ThresholdNum == 1    \* 0.01 == ThresholdNum / ThresholdDen
ThresholdDen == 100
HalfSamples == 50    \* 50 * [left value] + 50 * [right value]
KernelLen == 20      \* 0.05 * np.ones(20)
KernelWeightDen == 20 \* 0.05 == 1 / KernelWeightDen, the weight of a kernel entry
aspect == 4          \* default of the aspect parameter

One == Scale * GapDen
\* the weights a caller passes: 0, 1/Scale (below 0.01), 3/Scale (above 0.01)
Weights == {0, GapDen, 3 * GapDen}

NULL == "NaN"
LeftCats == {"A", "B"}
RightCats == {"X", "Y"}

VARIABLES
    left, right,                 \* the two category columns (arguments)
    leftWeightArg, rightWeightArg, \* the weight arguments, <<>> when omitted
    leftLabelsArg, rightLabelsArg, \* the label-order arguments, <<>> when omitted
    colorDictArg,                \* [given, keys]: the colorDict argument
    pc, err, errSide,            \* position in sankey(), exception raised
    leftWeight, rightWeight,     \* df.leftWeight, df.rightWeight
    leftLabels, rightLabels,     \* resolved stacking lists
    colorDict,                   \* keys of the colour map in use
    ns_l, ns_r,                  \* pairwise sums
    widths_left, widths_right,   \* bands: label -> [total, bottom, top]
    topEdge,                     \* [bound, val]: the local variable topEdge
    xMax,                        \* [num, den]: topEdge / aspect
    si, sj,                      \* indices of the strip pass
    strips,                      \* strips emitted so far
    sLeft, sRight, ys            \* smoothing: the two levels and the curve

vars == <<left, right, leftWeightArg, rightWeightArg, leftLabelsArg,
          rightLabelsArg, colorDictArg, pc, err, errSide, leftWeight,
          rightWeight, leftLabels, rightLabels, colorDict, ns_l, ns_r,
          widths_left, widths_right, topEdge, xMax, si, sj, strips,
          sLeft, sRight, ys>>

\* ----------------------------------------------------------------- helpers
Range(s) == {s[i] : i \in DOMAIN s}

Reverse(s) == [i \in 1..Len(s) |-> s[Len(s) + 1 - i]]

RECURSIVE SumIdx(_, _)
SumIdx(w, I) ==
    IF I = {} THEN 0
    ELSE LET i == CHOOSE x \in I : TRUE IN w[i] + SumIdx(w, I \ {i})

\* Series.sum()
SumSeq(w) == SumIdx(w, DOMAIN w)

\* Series.unique(): the distinct values in first-occurrence order
RECURSIVE unique(_)
unique(s) ==
    IF s = <<>> THEN <<>>
    ELSE LET r == unique(SubSeq(s, 1, Len(s) - 1))
         IN IF s[Len(s)] \in Range(r) THEN r ELSE Append(r, s[Len(s)])

SeqsUpTo(S, n) == UNION {[1..k -> S] : k \in 0..n}

\* ------------------------------------------------------------- the program

\* np.ones(len(left)) when no left weights are passed
DefaultLeftWeight(lw, n) ==
    IF Len(lw) = 0 THEN [i \in 1..n |-> One] ELSE lw

\* mutant: right weights default to ones, not to the left weights
DefaultRightWeight_Ones(rw, lw) ==
    IF Len(rw) = 0 THEN [i \in DOMAIN lw |-> One] ELSE rw

\* the left weights when no right weights are passed
DefaultRightWeight(rw, lw) ==
    IF Len(rw) = 0 THEN lw ELSE rw

\* mutant: only the left column is tested for nulls
HasNulls_LeftOnly(l, r) ==
    \E i \in DOMAIN l : l[i] = NULL

\* len(df[(df.left.isnull()) | (df.right.isnull())]) > 0
HasNulls(l, r) ==
    \E i \in DOMAIN l : l[i] = NULL \/ r[i] = NULL

\* mutant: the label order is kept as passed
ArgOrder_Kept(labels) == labels

\* leftLabels[::-1] / rightLabels[::-1] for a label order the caller passes
ArgOrder(labels) == Reverse(labels)

\* mutant: only categories of the data that are not declared are reported
check_data_matches_labels_Subset(labels, data) ==
    Len(labels) > 0 /\ ~(Range(data) \subseteq Range(labels))

\* check_data_matches_labels: TRUE when it raises LabelMismatch
check_data_matches_labels(labels, data) ==
    Len(labels) > 0 /\ Range(labels) # Range(data)

\* the stacking list of one side
IdentifyLabels(labels, data) ==
    IF Len(labels) = 0 THEN unique(unique(data)) ELSE labels

\* pd.Series(np.r_[df.left.unique(), df.right.unique()]).unique()
allLabels(l, r) == unique(unique(l) \o unique(r))

\* [label for label in allLabels if label not in colorDict.keys()]
missing(labels, keys) == {x \in Range(labels) : x \notin keys}

\* df[(df.left == l) & (df.right == l2)]
PairRows(l, l2) == {i \in DOMAIN left : left[i] = l /\ right[i] = l2}

\* df[(df.left == l) & (df.right == l2)].<weight>.sum()
PairSum(w, l, l2) == SumIdx(w, PairRows(l, l2))

\* df[df.<side> == l].<weight>.sum()
Marginal(col, w, l) == SumIdx(w, {i \in DOMAIN col : col[i] = l})

\* 0.02 * df.<weight>.sum()
Gap(w) == (GapNum * SumSeq(w)) \div GapDen

\* mutant: no gap between consecutive bands
BandBottom_NoGap(i, prevTop, gap) ==
    IF i = 1 THEN 0 ELSE prevTop

\* myD['bottom'] of the i-th band of a side
BandBottom(i, prevTop, gap) ==
    IF i = 1 THEN 0 ELSE prevTop + gap

\* one of the two stacking loops; topEdge is assigned only for i > 0
RECURSIVE StackBands(_, _, _, _, _, _, _)
StackBands(labels, col, w, gap, i, widths, top) ==
    IF i > Len(labels) THEN [widths |-> widths, topEdge |-> top]
    ELSE LET l == labels[i]
             total == Marginal(col, w, l)
             bottom == BandBottom(i, IF i = 1 THEN 0 ELSE widths[labels[i - 1]].top, gap)
             myD == [total |-> total, bottom |-> bottom, top |-> bottom + total]
             newTop == IF i = 1 THEN top ELSE [bound |-> TRUE, val |-> myD.top]
         IN StackBands(labels, col, w, gap, i + 1,
                       [x \in DOMAIN widths \cup {l} |->
                            IF x = l THEN myD ELSE widths[x]],
                       newTop)

NoBands == [x \in {} |-> 0]
Unbound == [bound |-> FALSE, val |-> 0]

\* ns_l[l][l2] > 0.01
AboveThreshold(flow) == flow * ThresholdDen > ThresholdNum * One

\* lab_f: <<>> is the empty text, <<v>> the formatted value v
lab_f(flow) == IF AboveThreshold(flow) THEN <<flow>> ELSE <<>>

\* mutant: a pair whose flow is negligible gets no strip
HasStrip_AboveThreshold(l, l2) == AboveThreshold(PairSum(leftWeight, l, l2))

\* len(df[(df.left == l) & (df.right == l2)]) > 0
HasStrip(l, l2) == Cardinality(PairRows(l, l2)) > 0

\* mutant: = instead of +=
Advance_Assign(widths, l, amount) ==
    [widths EXCEPT ![l].bottom = amount]

\* widths[l]['bottom'] += amount
Advance(widths, l, amount) ==
    [widths EXCEPT ![l].bottom = @ + amount]

\* np.array(50 * [a] + 50 * [b])
StepArray(a, b) ==
    [i \in 1..(2 * HalfSamples) |-> IF i <= HalfSamples THEN a ELSE b]

RECURSIVE Window(_, _, _)
Window(a, i, k) == IF k = 0 THEN 0 ELSE a[i + k - 1] + Window(a, i, k - 1)

\* mutant: np.convolve's default mode 'full'
convolve_Full(a) ==
    [i \in 1..(Len(a) + KernelLen - 1) |->
        SumIdx(a, {j \in DOMAIN a : j <= i /\ j > i - KernelLen})]

\* np.convolve(a, 0.05 * np.ones(20), mode='valid'), times 20: the kernel
\* weight 0.05 is 1/20, so each pass leaves the samples scaled by 20
convolve(a) ==
    [i \in 1..(Len(a) - KernelLen + 1) |-> Window(a, i, KernelLen)]

\* both passes; a sample v of the program is v * CurveScale here
CurveScale == KernelWeightDen * KernelWeightDen
Smooth(a, b) == convolve(convolve(StepArray(a, b)))

\* ----------------------------------------------------------------- actions
Idle ==
    /\ leftLabelsArg = <<>> /\ rightLabelsArg = <<>>
    /\ colorDictArg = [given |-> FALSE, keys |-> {}]
    /\ err = "none" /\ errSide = "none"
    /\ leftWeight = <<>> /\ rightWeight = <<>>
    /\ leftLabels = <<>> /\ rightLabels = <<>>
    /\ colorDict = {}
    /\ ns_l = NoBands /\ ns_r = NoBands
    /\ widths_left = NoBands /\ widths_right = NoBands
    /\ topEdge = Unbound
    /\ xMax = [num |-> 0, den |-> 0]
    /\ si = 0 /\ sj = 0
    /\ strips = <<>>

Init ==
    /\ \E n \in 0..MaxRecords :
          /\ left \in [1..n -> LeftCats \cup {NULL}]
          /\ right \in [1..n -> RightCats \cup {NULL}]
          /\ leftWeightArg \in {<<>>} \cup [1..n -> Weights]
          /\ rightWeightArg \in {<<>>} \cup [1..n -> Weights]
    /\ pc = "start"
    /\ Idle
    /\ sLeft = 0 /\ sRight = 0 /\ ys = <<>>

\* lines 101-135: weight defaults, the data frame, the null check
CheckNulls ==
    /\ pc = "start"
    /\ leftWeight' = DefaultLeftWeight(leftWeightArg, Len(left))
    /\ rightWeight' = DefaultRightWeight(rightWeightArg, leftWeight')
    /\ IF HasNulls(left, right)
       THEN pc' = "error" /\ err' = "NullsInFrame"
       ELSE pc' = "labels" /\ err' = err
    /\ UNCHANGED <<left, right, leftWeightArg, rightWeightArg, leftLabelsArg,
                   rightLabelsArg, colorDictArg, errSide, leftLabels,
                   rightLabels, colorDict, ns_l, ns_r, widths_left,
                   widths_right, topEdge, xMax, si, sj, strips,
                   sLeft, sRight, ys>>

\* lines 105-112 and 137-150: the label orders the caller passes (drawn here,
\* where they are first read) and the stacking lists
ResolveLabels ==
    /\ pc = "labels"
    /\ \E ll \in SeqsUpTo(LeftCats, Cardinality(LeftCats)),
          rl \in SeqsUpTo(RightCats, Cardinality(RightCats)) :
          /\ leftLabelsArg' = ll
          /\ rightLabelsArg' = rl
          /\ IF check_data_matches_labels(ArgOrder(ll), left)
             THEN /\ pc' = "error" /\ err' = "LabelMismatch" /\ errSide' = "left"
                  /\ leftLabels' = ArgOrder(ll)
                  /\ rightLabels' = ArgOrder(rl)
             ELSE IF check_data_matches_labels(ArgOrder(rl), right)
             THEN /\ pc' = "error" /\ err' = "LabelMismatch" /\ errSide' = "right"
                  /\ leftLabels' = IdentifyLabels(ArgOrder(ll), left)
                  /\ rightLabels' = ArgOrder(rl)
             ELSE /\ pc' = "colors" /\ err' = err /\ errSide' = errSide
                  /\ leftLabels' = IdentifyLabels(ArgOrder(ll), left)
                  /\ rightLabels' = IdentifyLabels(ArgOrder(rl), right)
    /\ UNCHANGED <<left, right, leftWeightArg, rightWeightArg, colorDictArg,
                   leftWeight, rightWeight, colorDict, ns_l, ns_r,
                   widths_left, widths_right, topEdge, xMax, si, sj, strips,
                   sLeft, sRight, ys>>

ColorDictArgs ==
    { [given |-> FALSE, keys |-> {}],
      [given |-> TRUE, keys |-> (LeftCats \cup RightCats) \ {"B"}] }

\* lines 151-162: the colour map
CheckColors ==
    /\ pc = "colors"
    /\ \E cd \in ColorDictArgs :
          /\ colorDictArg' = cd
          /\ IF ~cd.given
             THEN /\ colorDict' = Range(allLabels(left, right))
                  /\ pc' = "widths" /\ err' = err
             ELSE IF missing(allLabels(left, right), cd.keys) # {}
             THEN /\ colorDict' = cd.keys
                  /\ pc' = "error" /\ err' = "RuntimeError"
             ELSE /\ colorDict' = cd.keys
                  /\ pc' = "widths" /\ err' = err
    /\ UNCHANGED <<left, right, leftWeightArg, rightWeightArg, leftLabelsArg,
                   rightLabelsArg, errSide, leftWeight, rightWeight,
                   leftLabels, rightLabels, ns_l, ns_r, widths_left,
                   widths_right, topEdge, xMax, si, sj, strips,
                   sLeft, sRight, ys>>

\* lines 164-174: widths of the individual strips
StripWidths ==
    /\ pc = "widths"
    /\ ns_l' = [p \in Range(leftLabels) \X Range(rightLabels) |->
                   PairSum(leftWeight, p[1], p[2])]
    /\ ns_r' = [p \in Range(leftLabels) \X Range(rightLabels) |->
                   PairSum(rightWeight, p[1], p[2])]
    /\ pc' = "layout"
    /\ UNCHANGED <<left, right, leftWeightArg, rightWeightArg, leftLabelsArg,
                   rightLabelsArg, colorDictArg, err, errSide, leftWeight,
                   rightWeight, leftLabels, rightLabels, colorDict,
                   widths_left, widths_right, topEdge, xMax, si, sj, strips,
                   sLeft, sRight, ys>>

\* lines 176-202: the bands of the left side, then of the right side
LayoutBands ==
    /\ pc = "layout"
    /\ LET L == StackBands(leftLabels, left, leftWeight, Gap(leftWeight),
                           1, NoBands, Unbound)
           R == StackBands(rightLabels, right, rightWeight, Gap(rightWeight),
                           1, NoBands, L.topEdge)
       IN /\ widths_left' = L.widths
          /\ widths_right' = R.widths
          /\ topEdge' = R.topEdge
    /\ pc' = "extent"
    /\ UNCHANGED <<left, right, leftWeightArg, rightWeightArg, leftLabelsArg,
                   rightLabelsArg, colorDictArg, err, errSide, leftWeight,
                   rightWeight, leftLabels, rightLabels, colorDict, ns_l,
                   ns_r, xMax, si, sj, strips, sLeft, sRight, ys>>

\* lines 204-240: xMax = topEdge / aspect, then the bars and their labels
\* (drawn from the bands, which they leave as they are)
DrawBars ==
    /\ pc = "extent"
    /\ IF ~topEdge.bound
       THEN /\ pc' = "error" /\ err' = "UnboundLocalError"
            /\ UNCHANGED <<xMax, si, sj>>
       ELSE /\ xMax' = [num |-> topEdge.val, den |-> aspect]
            /\ pc' = "strips" /\ err' = err
            /\ si' = 1 /\ sj' = 1
    /\ UNCHANGED <<left, right, leftWeightArg, rightWeightArg, leftLabelsArg,
                   rightLabelsArg, colorDictArg, errSide, leftWeight,
                   rightWeight, leftLabels, rightLabels, colorDict, ns_l,
                   ns_r, widths_left, widths_right, topEdge, strips,
                   sLeft, sRight, ys>>

\* lines 243-280: one pass of the inner loop of the strip pass; after the
\* last pair, lines 281-305 (titles, saving) end the call
PlotStrip ==
    /\ pc = "strips"
    /\ LET l == leftLabels[si]
           l2 == rightLabels[sj]
       IN IF HasStrip(l, l2)
          THEN /\ strips' = Append(strips,
                     [l |-> l, r |-> l2,
                      d_left |-> widths_left[l].bottom,
                      d_right |-> widths_right[l2].bottom,
                      u_left |-> widths_left[l].bottom + ns_l[<<l, l2>>],
                      u_right |-> widths_right[l2].bottom + ns_r[<<l, l2>>],
                      lab_f |-> lab_f(ns_l[<<l, l2>>])])
               /\ widths_left' = Advance(widths_left, l, ns_l[<<l, l2>>])
               /\ widths_right' = Advance(widths_right, l2, ns_r[<<l, l2>>])
          ELSE UNCHANGED <<strips, widths_left, widths_right>>
    /\ IF sj < Len(rightLabels)
       THEN si' = si /\ sj' = sj + 1 /\ pc' = pc
       ELSE /\ si' = si + 1 /\ sj' = 1
            /\ pc' = IF si < Len(leftLabels) THEN pc ELSE "done"
    /\ UNCHANGED <<left, right, leftWeightArg, rightWeightArg, leftLabelsArg,
                   rightLabelsArg, colorDictArg, err, errSide, leftWeight,
                   rightWeight, leftLabels, rightLabels, colorDict, ns_l,
                   ns_r, topEdge, xMax, sLeft, sRight, ys>>

Next ==
    \/ CheckNulls
    \/ ResolveLabels
    \/ CheckColors
    \/ StripWidths
    \/ LayoutBands
    \/ DrawBars
    \/ PlotStrip

Spec == Init /\ [][Next]_vars

\* ------------------------------------------ the smoothing of one boundary
InitSmooth ==
    /\ left = <<>> /\ right = <<>>
    /\ leftWeightArg = <<>> /\ rightWeightArg = <<>>
    /\ pc = "smooth"
    /\ Idle
    /\ sLeft \in 0..MaxLevel /\ sRight \in 0..MaxLevel
    /\ ys = <<>>

\* lines 250-252 (ys_d) and 253-255 (ys_u): the step and the two passes
SmoothBoundary ==
    /\ pc = "smooth"
    /\ ys = <<>>
    /\ ys' = Smooth(sLeft, sRight)
    /\ UNCHANGED <<left, right, leftWeightArg, rightWeightArg, leftLabelsArg,
                   rightLabelsArg, colorDictArg, pc, err, errSide, leftWeight,
                   rightWeight, leftLabels, rightLabels, colorDict, ns_l,
                   ns_r, widths_left, widths_right, topEdge, xMax, si, sj,
                   strips, sLeft, sRight>>

NextSmooth == SmoothBoundary

SpecSmooth == InitSmooth /\ [][NextSmooth]_vars

\* ------------------------------------------------------------------ claims
\* What the call is expected to work on, read from the arguments alone.
ArgLeftWeight ==
    IF leftWeightArg = <<>> THEN [i \in DOMAIN left |-> One] ELSE leftWeightArg

ArgRightWeight ==
    IF rightWeightArg = <<>> THEN ArgLeftWeight ELSE rightWeightArg

Rows(col, l) == {i \in DOMAIN col : col[i] = l}

Distinct(s) == \A i, j \in DOMAIN s : i # j => s[i] # s[j]

\* the label orders the caller passed repeat no label
ValidArgs == Distinct(leftLabelsArg) /\ Distinct(rightLabelsArg)

\* both stacking loops have run and no strip has been taken from a band
LaidOut == pc = "extent" \/ (pc = "error" /\ err = "UnboundLocalError")

\* both stacking loops have run
BandsBuilt == LaidOut \/ pc \in {"strips", "done"}

Max(a, b) == IF a >= b THEN a ELSE b

SideStacked(labels, widths, col, w) ==
    /\ \A i \in DOMAIN labels :
          /\ widths[labels[i]].top >= widths[labels[i]].bottom
          /\ widths[labels[i]].top - widths[labels[i]].bottom
                = SumIdx(w, Rows(col, labels[i]))
    /\ \A i \in 1..(Len(labels) - 1) :
          GapDen * (widths[labels[i + 1]].bottom - widths[labels[i]].top)
             = GapNum * SumSeq(w)
    /\ \A i, j \in DOMAIN labels :
          i < j => widths[labels[i]].top <= widths[labels[j]].bottom
    /\ Len(labels) > 0 =>
          /\ widths[labels[1]].bottom = 0
          /\ GapDen * widths[labels[Len(labels)]].top
                = GapDen * SumSeq(w) + GapNum * SumSeq(w) * (Len(labels) - 1)

\* C1: after the stack layout of a valid call, on either side every band has
\* top >= bottom and top - bottom equal to its label's marginal weight, each
\* later band starts at the earlier band's top plus 0.02 x (the side's total
\* weight), no two bands overlap, the first band starts at 0 and the last
\* band ends at the marginals plus the gaps between the bands.
C1_BandsStacked ==
    (LaidOut /\ ValidArgs) =>
        /\ SideStacked(leftLabels, widths_left, left, ArgLeftWeight)
        /\ SideStacked(rightLabels, widths_right, right, ArgRightWeight)

C1_Witness ==
    /\ pc = "extent" /\ ValidArgs
    /\ Len(leftLabelsArg) = 2 /\ Len(rightLabels) = 2
    /\ widths_left[leftLabels[2]].bottom > widths_left[leftLabels[1]].top
    /\ widths_left[leftLabels[1]].top > 0
    /\ widths_right[rightLabels[2]].bottom > widths_right[rightLabels[1]].top

SingleBand ==
    /\ Len(left) >= 1
    /\ \A i \in DOMAIN left :
          /\ left[i] = left[1] /\ right[i] = right[1]
          /\ left[i] # NULL /\ right[i] # NULL

\* C2: a record set with one left label and one right label is laid out
\* without error (only a wrong label order or colour map can stop the call),
\* and yields one band per side spanning 0 .. total weight and one strip
\* spanning both bands.
C2_SingleBandCompletes ==
    SingleBand =>
        /\ pc = "error" => err \in {"LabelMismatch", "RuntimeError"}
        /\ pc = "done" =>
              /\ Len(strips) = 1
              /\ strips[1].d_left = 0 /\ strips[1].d_right = 0
              /\ strips[1].u_left = SumSeq(ArgLeftWeight)
              /\ strips[1].u_right = SumSeq(ArgRightWeight)
              /\ widths_left[left[1]].top = SumSeq(ArgLeftWeight)
              /\ widths_right[right[1]].top = SumSeq(ArgRightWeight)

\* bands stacked in the order of `order`, the first one lowest
StackedInOrder(order, widths, strict) ==
    /\ Len(order) > 0 => widths[order[1]].bottom = 0
    /\ \A i \in 1..(Len(order) - 1) :
          /\ widths[order[i + 1]].bottom >= widths[order[i]].top
          /\ strict => widths[order[i + 1]].bottom > widths[order[i]].bottom

\* C3 as stated: the first label of a label order the caller passes is the
\* lowest band and each later label is stacked strictly above the one before
\* (stated here for calls with positive weights only).
C3_FirstDeclaredLowest ==
    (LaidOut /\ ValidArgs /\ \A i \in DOMAIN left :
                                 ArgLeftWeight[i] > 0 /\ ArgRightWeight[i] > 0) =>
        /\ leftLabelsArg # <<>> =>
              StackedInOrder(leftLabelsArg, widths_left, TRUE)
        /\ rightLabelsArg # <<>> =>
              StackedInOrder(rightLabelsArg, widths_right, TRUE)

\* C3 (amended): a label order the caller passes (repeating no label) is
\* stacked in reverse, its last label lowest at bottom = 0 and each earlier
\* label above the one after it, strictly when the side's total weight is
\* positive; with no label order the labels are stacked in first-occurrence
\* order of the data, the first-occurring label lowest.
C3_StackingOrder ==
    (LaidOut /\ ValidArgs) =>
        /\ StackedInOrder(IF leftLabelsArg = <<>> THEN unique(left)
                          ELSE Reverse(leftLabelsArg),
                          widths_left, SumSeq(ArgLeftWeight) > 0)
        /\ StackedInOrder(IF rightLabelsArg = <<>> THEN unique(right)
                          ELSE Reverse(rightLabelsArg),
                          widths_right, SumSeq(ArgRightWeight) > 0)

C3_Witness ==
    /\ pc = "extent"
    /\ leftLabelsArg = <<"A", "B">>
    /\ rightLabelsArg = <<>> /\ right = <<"Y", "X">>
    /\ widths_left["B"].bottom = 0
    /\ widths_left["A"].bottom > widths_left["B"].top
    /\ widths_right["Y"].bottom = 0
    /\ widths_right["X"].bottom > widths_right["Y"].top

\* C4: a call with a null left or right category in any record fails with
\* NullsInFrame, and fails first: no label list is resolved, no colour map
\* checked, no pairwise sum, band or strip computed.
C4_NullsFailFirst ==
    (\E i \in DOMAIN left : left[i] = NULL \/ right[i] = NULL) =>
        /\ pc \in {"start", "error"}
        /\ pc = "error" => err = "NullsInFrame"
        /\ leftLabels = <<>> /\ rightLabels = <<>>
        /\ colorDict = {}
        /\ DOMAIN ns_l = {} /\ DOMAIN ns_r = {}
        /\ DOMAIN widths_left = {} /\ DOMAIN widths_right = {}
        /\ ~topEdge.bound
        /\ strips = <<>>

C4_Witness ==
    /\ pc = "error" /\ err = "NullsInFrame"
    /\ Len(left) = 2
    /\ left[1] # NULL /\ right[1] # NULL
    /\ left[2] # NULL /\ right[2] = NULL

\* the label check of the call has run
LabelsChecked == pc \notin {"start", "labels"} /\ err # "NullsInFrame"

Differs(arg, data) == Len(arg) > 0 /\ Range(arg) # Range(data)

\* C5: the label check raises LabelMismatch for a side exactly when a
\* non-empty label order was passed for it whose set of labels differs from
\* the set of categories in the data of that side (the left side is checked
\* first, the right side when the left side passed); a side with no label
\* order never raises it.
C5_LabelMismatchIff ==
    LabelsChecked =>
        /\ (err = "LabelMismatch" /\ errSide = "left")
              <=> Differs(leftLabelsArg, left)
        /\ (err = "LabelMismatch" /\ errSide = "right")
              <=> (~Differs(leftLabelsArg, left) /\ Differs(rightLabelsArg, right))
        /\ leftLabelsArg = <<>> => errSide # "left"
        /\ rightLabelsArg = <<>> => errSide # "right"

C5_Witness ==
    /\ err = "LabelMismatch" /\ errSide = "left"
    /\ leftLabelsArg = <<"A", "B">>
    /\ Range(left) = {"A"}

\* topEdge of one side as the claim gives it, times GapDen
SideTopEdge(labels, w) ==
    GapDen * SumSeq(w) + GapNum * SumSeq(w) * (Len(labels) - 1)

\* C6: the vertical scale is derived from the larger of the two sides'
\* topEdge, each being the side's marginals plus 0.02 x (the side's total
\* weight) x (labelCount - 1): xMax = max(left topEdge, right topEdge) / aspect.
C6_ScaleFromLargerTopEdge ==
    (pc \in {"strips", "done"} /\ ValidArgs) =>
        /\ xMax.den = aspect
        /\ GapDen * xMax.num = Max(SideTopEdge(leftLabels, ArgLeftWeight),
                                   SideTopEdge(rightLabels, ArgRightWeight))

RECURSIVE SumTotals(_, _)
SumTotals(widths, D) ==
    IF D = {} THEN 0
    ELSE LET l == CHOOSE x \in D : TRUE
         IN widths[l].total + SumTotals(widths, D \ {l})

\* C7: the marginal totals of the left bands add up to the sum of leftWeight
\* over all records and those of the right bands to the sum of rightWeight,
\* where rightWeight defaults to leftWeight and leftWeight to 1 per record.
C7_WeightConservation ==
    BandsBuilt =>
        /\ SumTotals(widths_left, DOMAIN widths_left) = SumSeq(ArgLeftWeight)
        /\ SumTotals(widths_right, DOMAIN widths_right) = SumSeq(ArgRightWeight)

C7_Witness ==
    /\ pc = "extent"
    /\ leftWeightArg # <<>> /\ rightWeightArg = <<>>
    /\ Len(rightLabels) = 2
    /\ \A l \in DOMAIN widths_right : widths_right[l].total > 0
    /\ SumTotals(widths_right, DOMAIN widths_right) # Len(left) * One

RECURSIVE Taken(_, _, _)
\* the height taken from the band of label l on one side by the first k strips
Taken(side, l, k) ==
    IF k = 0 THEN 0
    ELSE Taken(side, l, k - 1)
         + (IF side = "left"
            THEN (IF strips[k].l = l THEN strips[k].u_left - strips[k].d_left ELSE 0)
            ELSE (IF strips[k].r = l THEN strips[k].u_right - strips[k].d_right ELSE 0))

\* C8: in every state of the strip pass of a valid call, each emitted strip
\* (l, r) is leftSum(l, r) high on the left and rightSum(l, r) high on the
\* right and starts where the strips taken earlier from the same band end,
\* the first at the band's bottom; each band's running bottom is its original
\* bottom plus the heights taken so far and never exceeds its top; and when
\* all pairs are visited every band's running bottom equals its top.
C8_StripsFillBands ==
    (pc \in {"strips", "done"} /\ ValidArgs) =>
        /\ \A k \in DOMAIN strips :
              LET s == strips[k]
                  rows == {i \in DOMAIN left : left[i] = s.l /\ right[i] = s.r}
              IN /\ s.u_left - s.d_left = SumIdx(ArgLeftWeight, rows)
                 /\ s.u_right - s.d_right = SumIdx(ArgRightWeight, rows)
                 /\ s.d_left = widths_left[s.l].top - widths_left[s.l].total
                                  + Taken("left", s.l, k - 1)
                 /\ s.d_right = widths_right[s.r].top - widths_right[s.r].total
                                  + Taken("right", s.r, k - 1)
        /\ \A l \in DOMAIN widths_left :
              /\ widths_left[l].bottom = widths_left[l].top - widths_left[l].total
                                            + Taken("left", l, Len(strips))
              /\ widths_left[l].bottom <= widths_left[l].top
              /\ pc = "done" => widths_left[l].bottom = widths_left[l].top
        /\ \A l \in DOMAIN widths_right :
              /\ widths_right[l].bottom = widths_right[l].top - widths_right[l].total
                                            + Taken("right", l, Len(strips))
              /\ widths_right[l].bottom <= widths_right[l].top
              /\ pc = "done" => widths_right[l].bottom = widths_right[l].top

C8_Witness ==
    /\ pc = "done" /\ ValidArgs
    /\ Len(strips) = 2
    /\ strips[1].l = strips[2].l /\ strips[1].r # strips[2].r
    /\ strips[1].u_left > strips[1].d_left
    /\ strips[2].d_left = strips[1].u_left
    /\ strips[2].u_left > strips[2].d_left
    /\ strips[2].u_right # strips[2].u_left

\* C9: the smoothed boundary is monotone from the left value to the right
\* value, every sample lies between the two values, its first sample is the
\* left value and its last sample the right value.
C9_SmoothMonotone ==
    ys # <<>> =>
        /\ ys[1] = sLeft * CurveScale
        /\ ys[Len(ys)] = sRight * CurveScale
        /\ \A i \in DOMAIN ys :
              /\ ys[i] >= (IF sLeft <= sRight THEN sLeft ELSE sRight) * CurveScale
              /\ ys[i] <= (IF sLeft <= sRight THEN sRight ELSE sLeft) * CurveScale
        /\ \A i \in 1..(Len(ys) - 1) :
              IF sLeft <= sRight THEN ys[i] <= ys[i + 1] ELSE ys[i] >= ys[i + 1]

C9_Witness ==
    /\ ys # <<>>
    /\ sLeft > sRight /\ sRight > 0
    /\ \E i \in DOMAIN ys : ys[i] < sLeft * CurveScale /\ ys[i] > sRight * CurveScale

\* C10: a step of the strip pass on a pair with at least one record emits the
\* strip, leftSum high on the left and rightSum high on the right, and
\* advances both band offsets by those heights however small the flow; the
\* strip's text is empty when the flow (the pair's left sum) is below 0.01
\* and shown when it is above; a step on a pair with no record emits nothing
\* and leaves both band offsets as they were.
C10_StripPerRecordedPair ==
    [][pc = "strips" =>
         LET l == leftLabels[si]
             l2 == rightLabels[sj]
             rows == {i \in DOMAIN left : left[i] = l /\ right[i] = l2}
             flow == SumIdx(ArgLeftWeight, rows)
             rflow == SumIdx(ArgRightWeight, rows)
         IN IF rows # {}
            THEN /\ Len(strips') = Len(strips) + 1
                 /\ SubSeq(strips', 1, Len(strips)) = strips
                 /\ LET s == strips'[Len(strips')]
                    IN /\ s.l = l /\ s.r = l2
                       /\ s.d_left = widths_left[l].bottom
                       /\ s.d_right = widths_right[l2].bottom
                       /\ s.u_left = s.d_left + flow
                       /\ s.u_right = s.d_right + rflow
                       /\ flow * ThresholdDen < ThresholdNum * One => s.lab_f = <<>>
                       /\ flow * ThresholdDen > ThresholdNum * One => s.lab_f # <<>>
                 /\ widths_left'[l].bottom = widths_left[l].bottom + flow
                 /\ widths_right'[l2].bottom = widths_right[l2].bottom + rflow
            ELSE /\ strips' = strips
                 /\ widths_left' = widths_left
                 /\ widths_right' = widths_right]_vars

C10_Witness ==
    /\ pc = "done"
    /\ Len(strips) = 2
    /\ strips[1].lab_f = <<>> /\ strips[1].u_left > strips[1].d_left
    /\ strips[2].lab_f # <<>>
    /\ Cardinality(DOMAIN ns_l) > 2

====
